---- MODULE Spec2Model ----
(***************************************************************************)
(* Node bootstrap scripts of k8-cluster-setup.                             *)
(*                                                                         *)
(*   "debian": src/k8 cluster setup debian/k8_cluster_setup.py             *)
(*   "cross" : src/cross distro cluster setup /cross_distro_k8_cluster_setup.py *)
(*                                                                         *)
(* A behaviour is one invocation: the script's main(), or a direct call of *)
(* one of the module-level functions / methods (entry).  The command line, *)
(* the configuration file and the host's facts (euid, memory, CPUs, tools, *)
(* ports) are fixed when the behaviour starts; what a child process or a   *)
(* file operation does is chosen, by \E, where the code reaches it.        *)
(***************************************************************************)
EXTENDS Integers, Sequences, FiniteSets, TLC

(***************************************************************************)
(* Bounds of the model.                                                    *)
(***************************************************************************)
\* largest `retries` argument tried in a direct call of run_command
MaxRetries == 3

(***************************************************************************)
(* Program constants.                                                      *)
(***************************************************************************)
\* run_command(..., retries: int = 3, ...)
DefaultRetries == 3
\* min_memory_gb = 2 / min_requirements["memory_gb"]
min_memory_gb == 2
\* min_cpu_cores = 2 / min_requirements["cpu_cores"]
min_cpu_cores == 2
\* memory is kept in MiB: psutil total / (1024**3) < 2  <=>  MiB < 2 * 1024
MiBPerGiB == 1024

Variants == {"cross", "debian"}

(***************************************************************************)
(* Text.  A text is a sequence of tokens; the whitespace tokens are the    *)
(* characters str.strip() removes.                                         *)
(***************************************************************************)
Whitespace == {" ", "\n", "\t"}

RECURSIVE LStrip(_)
LStrip(s) ==
  IF s = <<>> THEN <<>>
  ELSE IF Head(s) \in Whitespace THEN LStrip(Tail(s)) ELSE s

RECURSIVE RStrip(_)
RStrip(s) ==
  IF s = <<>> THEN <<>>
  ELSE IF s[Len(s)] \in Whitespace THEN RStrip(SubSeq(s, 1, Len(s) - 1)) ELSE s

\* str.strip()
Strip(s) == RStrip(LStrip(s))

\* ";" in command
HasSemicolon(cmd) == \E i \in 1..Len(cmd) : cmd[i] = ";"

\* join_command.startswith("kubeadm join")
StartsWithKubeadmJoin(cmd) == Len(cmd) >= 1 /\ cmd[1] = "kubeadm join"

(***************************************************************************)
(* run_command.  One attempt of the child process ends in one of           *)
(*   ok       exit status 0, stdout captured                               *)
(*   nonzero  CalledProcessError (check=True)                              *)
(*   timeout  subprocess.TimeoutExpired                                    *)
(*   oserror  OSError while launching                                      *)
(* check and shell are left at the values every call site uses (True).     *)
(***************************************************************************)
FailKinds == {"nonzero", "timeout", "oserror"}
AttemptKinds == {"ok"} \cup FailKinds

\* what the stdout of a successful attempt may be
Stdouts == {<<"a">>, <<" ", "b", "\n">>}

AttemptOutcomes ==
  {[kind |-> "ok", out |-> o] : o \in Stdouts}
    \cup {[kind |-> k, out |-> <<>>] : k \in FailKinds}

\* One iteration of the for loop of the cross-distro run_command:
\* every exception is swallowed unless this is the last attempt.
AttemptStep_cross(kind, attempt, retries) ==
  CASE kind = "ok"      -> "return"
    [] kind = "timeout" -> IF attempt = retries - 1 THEN "Timeout" ELSE "next"
    [] kind = "oserror" -> IF attempt = retries - 1 THEN "OsError" ELSE "next"
    [] OTHER            -> IF attempt = retries - 1 THEN "Unexpected" ELSE "next"

\* One iteration of the for loop of the debian run_command: only
\* CalledProcessError is retried, any other exception raises at once.
AttemptStep_debian(kind, attempt, retries) ==
  CASE kind = "ok"      -> "return"
    [] kind = "nonzero" -> IF attempt < retries - 1 THEN "next" ELSE "CommandFailed"
    [] OTHER            -> "Unexpected"

\* a debian retry that gives up one attempt early
AttemptStep_giveup(v, kind, attempt, retries) ==
  IF kind = "nonzero" /\ attempt >= retries - 2
  THEN (IF v = "cross" THEN "Unexpected" ELSE "CommandFailed")
  ELSE IF v = "cross" THEN AttemptStep_cross(kind, attempt, retries)
       ELSE AttemptStep_debian(kind, attempt, retries)

\* a loop that swallows the failure of the last attempt as well
AttemptStep_fallthrough(v, kind, attempt, retries) ==
  IF kind = "ok" THEN "return" ELSE "next"

AttemptStep(v, kind, attempt, retries) ==
  IF v = "cross" THEN AttemptStep_cross(kind, attempt, retries)
  ELSE AttemptStep_debian(kind, attempt, retries)

\* the guard before the loop: only the debian script has one
RejectsCommand(v, cmd) == v = "debian" /\ HasSemicolon(cmd)

\* The loop from iteration `attempt` (0-based) on.  outs[i] is what attempt
\* i (1-based) of the child process does.  Falling out of the loop (only
\* when retries <= 0) returns None.
RECURSIVE RunFrom(_, _, _, _)
RunFrom(v, outs, retries, attempt) ==
  IF attempt >= retries
  THEN [status |-> "returned", none |-> TRUE, value |-> <<>>, attempts |-> attempt]
  ELSE LET o == outs[attempt + 1]
           s == AttemptStep(v, o.kind, attempt, retries)
       IN  CASE s = "return" ->
                  [status |-> "returned", none |-> FALSE,
                   value |-> Strip(o.out), attempts |-> attempt + 1]
             [] s = "next" -> RunFrom(v, outs, retries, attempt + 1)
             [] OTHER ->
                  [status |-> s, none |-> FALSE, value |-> <<>>,
                   attempts |-> attempt + 1]

\* run_command(cmd, retries=retries): the whole call.
RunCommand(v, cmd, outs, retries) ==
  IF RejectsCommand(v, cmd)
  THEN [status |-> "InvalidCommand", none |-> FALSE, value |-> <<>>, attempts |-> 0]
  ELSE RunFrom(v, outs, retries, 0)


(***************************************************************************)
(* Configuration.  A pod-network CIDR string is kept parsed: wf says       *)
(* whether it reads as a.b.c.d/len at all.                                 *)
(***************************************************************************)
Cidr(text, wf, octets, len) ==
  [text |-> text, wf |-> wf, octets |-> octets, len |-> len]

CidrFlannel == Cidr("10.244.0.0/16", TRUE, <<10, 244, 0, 0>>, 16)
CidrDefault == Cidr("192.168.0.0/16", TRUE, <<192, 168, 0, 0>>, 16)
CidrBadLen  == Cidr("10.0.0.0/40", TRUE, <<10, 0, 0, 0>>, 40)
CidrHostBit == Cidr("10.244.0.1/16", TRUE, <<10, 244, 0, 1>>, 16)
CidrGarbage == Cidr("not-a-cidr", FALSE, <<0, 0, 0, 0>>, 0)
CidrAbsent  == Cidr("", FALSE, <<0, 0, 0, 0>>, 0)

CidrValues == {CidrFlannel, CidrBadLen, CidrHostBit, CidrGarbage}
PluginValues == {"flannel", "calico", "weave"}

RECURSIVE Pow2(_)
Pow2(n) == IF n <= 0 THEN 1 ELSE 2 * Pow2(n - 1)

\* the bits of octet i (1..4) below a prefix of length len are all zero
HostBitsZero(octet, i, len) ==
  IF len >= 8 * i THEN TRUE
  ELSE IF len <= 8 * (i - 1) THEN octet = 0
  ELSE octet % Pow2(8 * i - len) = 0

\* ipaddress.ip_network(s) does not raise ValueError (strict=True)
IpNetworkOk(c) ==
  /\ c.wf
  /\ \A i \in 1..4 : c.octets[i] \in 0..255
  /\ c.len \in 0..32
  /\ \A i \in 1..4 : HostBitsZero(c.octets[i], i, c.len)

\* the configuration file on disk
ConfigFiles ==
  {[kind |-> k, hasCidr |-> FALSE, cidr |-> CidrAbsent, hasPlugin |-> FALSE,
    plugin |-> "", mon |-> FALSE, log |-> FALSE] : k \in {"missing", "badyaml", "empty"}}
  \cup
  {[kind |-> "mapping", hasCidr |-> hc, cidr |-> c, hasPlugin |-> hp,
    plugin |-> p, mon |-> m, log |-> l] :
      hc \in BOOLEAN, c \in CidrValues \cup {CidrAbsent}, hp \in BOOLEAN,
      p \in PluginValues \cup {""}, m \in BOOLEAN, l \in BOOLEAN}

\* a file's keys and values agree: an absent key has no value
WellFormedFile(f) ==
  /\ (f.hasCidr <=> f.cidr # CidrAbsent)
  /\ (f.hasPlugin <=> f.plugin # "")
  /\ (f.kind = "empty" => ~f.hasCidr /\ ~f.hasPlugin)

\* config as main holds it; `substituted` records that load_config
\* returned its built-in defaults instead of the file's content
NoConfig ==
  [hasCidr |-> FALSE, cidr |-> CidrAbsent, hasPlugin |-> FALSE, plugin |-> "",
   mon |-> FALSE, log |-> FALSE, substituted |-> FALSE]

\* {"pod_network_cidr": "192.168.0.0/16", "network_plugin": "calico"}
DefaultConfig ==
  [hasCidr |-> TRUE, cidr |-> CidrDefault, hasPlugin |-> TRUE, plugin |-> "calico",
   mon |-> FALSE, log |-> FALSE, substituted |-> TRUE]

FileConfig(f) ==
  [hasCidr |-> f.hasCidr, cidr |-> f.cidr, hasPlugin |-> f.hasPlugin,
   plugin |-> f.plugin, mon |-> f.mon, log |-> f.log, substituted |-> FALSE]

\* missing = [field for field in required_fields if field not in config]
MissingFields(f) == ~f.hasCidr \/ ~f.hasPlugin

\* debian load_config: a missing file gives the defaults; a YAML error is a
\* K8sSetupError; the ValueError for missing fields is caught by nobody here.
load_config_debian(f) ==
  CASE f.kind = "missing" -> [err |-> "none", config |-> DefaultConfig]
    [] f.kind = "badyaml" -> [err |-> "YamlError", config |-> NoConfig]
    [] MissingFields(f)   -> [err |-> "MissingConfigFields", config |-> NoConfig]
    [] OTHER              -> [err |-> "none", config |-> FileConfig(f)]

\* cross load_config: FileNotFoundError and the ValueError for missing fields
\* are both caught and answered with the defaults; a YAML error, and the
\* TypeError of `field not in None` for an empty file, leave the function.
load_config_cross(f) ==
  CASE f.kind = "missing" -> [err |-> "none", config |-> DefaultConfig]
    [] f.kind = "badyaml" -> [err |-> "YamlError", config |-> NoConfig]
    [] f.kind = "empty"   -> [err |-> "TypeError", config |-> NoConfig]
    [] MissingFields(f)   -> [err |-> "none", config |-> DefaultConfig]
    [] OTHER              -> [err |-> "none", config |-> FileConfig(f)]

load_config(v, f) ==
  IF v = "cross" THEN load_config_cross(f) ELSE load_config_debian(f)

(***************************************************************************)
(* Host facts and the prerequisite checks.                                 *)
(***************************************************************************)
MemValues == {1 * MiBPerGiB, 2 * MiBPerGiB}
CpuValues == {1, 2}

\* min_requirements["ports"]
Ports == <<6443, 2379, 2380, 10250, 10257, 10259>>
ProbeResults == {"free", "busy", "error"}

\* first port, in table order from index i, whose probe is not "free"
RECURSIVE FirstBadPort(_, _)
FirstBadPort(probe, i) ==
  IF i > Len(Ports) THEN 0
  ELSE IF probe[i] # "free" THEN i
  ELSE FirstBadPort(probe, i + 1)

\* K8sCluster.check_prerequisites: memory, then CPU, then the ports in order
check_prerequisites(h) ==
  IF h.mem < min_memory_gb * MiBPerGiB THEN "InsufficientMemory"
  ELSE IF h.cpu < min_cpu_cores THEN "InsufficientCpu"
  ELSE LET b == FirstBadPort(h.probe, 1)
       IN  IF b = 0 THEN "none"
           ELSE IF h.probe[b] = "busy" THEN "PortInUse"
           ELSE "PortCheckError"

\* the port that the K8sSetupError of check_prerequisites names, 0 if none
check_prerequisites_port(h) ==
  IF check_prerequisites(h) \in {"PortInUse", "PortCheckError"}
  THEN Ports[FirstBadPort(h.probe, 1)] ELSE 0

\* a check that forgets the CPU comparison
check_system_requirements_nocpu(h) ==
  IF ~h.root THEN "NotRoot"
  ELSE IF h.mem < min_memory_gb * MiBPerGiB THEN "InsufficientResources"
  ELSE IF ~h.tools THEN "MissingCommands"
  ELSE "none"

\* check_system_requirements: euid, then memory and CPU, then shutil.which
check_system_requirements(h) ==
  IF ~h.root THEN "NotRoot"
  ELSE IF h.mem < min_memory_gb * MiBPerGiB \/ h.cpu < min_cpu_cores
       THEN "InsufficientResources"
  ELSE IF ~h.tools THEN "MissingCommands"
  ELSE "none"

ResourceErrors == {"InsufficientResources", "InsufficientMemory", "InsufficientCpu"}


(***************************************************************************)
(* Commands.  A command line is a text; the fixed ones are one token.      *)
(***************************************************************************)
\* install_prerequisites: commands
InstallCmds ==
  << <<"apt-get update && apt-get install -y apt-transport-https curl">>,
     <<"curl -s https://packages.cloud.google.com/apt/doc/apt-key.gpg | apt-key add -">>,
     <<"echo 'deb https://apt.kubernetes.io/ kubernetes-xenial main' > /etc/apt/sources.list.d/kubernetes.list">>,
     <<"apt-get update && apt-get install -y kubelet kubeadm kubectl">> >>

\* disable_swap
SwapCmds == << <<"swapoff -a">>, <<"sed -i '/ swap / s/^/#/' /etc/fstab">> >>

\* initialize_master: f"kubeadm init --pod-network-cidr={pod_network_cidr}"
KubeadmInit(c) == <<"kubeadm init --pod-network-cidr=", c.text>>

\* configure_kubectl
KubectlCmds ==
  << <<"cp -i /etc/kubernetes/admin.conf $HOME/.kube/config">>,
     <<"chown $(id -u):$(id -g) $HOME/.kube/config">> >>

\* deploy_network_plugin (debian): plugins
PluginNames_debian == {"calico", "flannel"}
PluginUrl_debian(p) ==
  IF p = "calico" THEN "https://docs.projectcalico.org/manifests/calico.yaml"
  ELSE "https://raw.githubusercontent.com/coreos/flannel/master/Documentation/kube-flannel.yml"
KubectlApply(url) == <<"kubectl apply -f", url>>

\* K8sCluster.deploy_network_plugin: plugins
PluginNames_cross == {"calico", "cilium"}
PluginUrl_cross(p) ==
  IF p = "calico"
  THEN "https://raw.githubusercontent.com/projectcalico/calico/v3.27.0/manifests/calico.yaml"
  ELSE "https://raw.githubusercontent.com/cilium/cilium/v1.14/install/kubernetes/quick-install.yaml"

\* the plugin names a caller may pass
PluginArgs == {"calico", "Calico", "cilium", "flannel", "weave", ""}

\* the distro identifiers a caller may pass (ID of /etc/os-release)
DistroIds ==
  {"ubuntu", "Ubuntu", "debian", "fedora", "centos", "rhel", "suse", "arch", "gentoo", ""}

\* str.lower() on those names and identifiers
Lower(name) ==
  CASE name = "Calico" -> "calico"
    [] name = "Ubuntu" -> "ubuntu"
    [] OTHER -> name

\* PackageManager._get_commands()
Verbs(u, i, r, c) == [update |-> u, install |-> i, remove |-> r, clean |-> c]
Apt == Verbs("apt-get update", "apt-get install -y", "apt-get remove -y", "apt-get clean")
Yum == Verbs("yum check-update", "yum install -y", "yum remove -y", "yum clean all")
CommandTable ==
  [d \in {"ubuntu", "debian", "fedora", "centos", "rhel", "suse", "arch"} |->
     CASE d \in {"ubuntu", "debian"} -> Apt
       [] d = "fedora" ->
            Verbs("dnf check-update", "dnf install -y", "dnf remove -y", "dnf clean all")
       [] d \in {"centos", "rhel"} -> Yum
       [] d = "suse" ->
            Verbs("zypper refresh", "zypper install -y", "zypper remove -y", "zypper clean")
       [] OTHER ->
            Verbs("pacman -Sy", "pacman -S --noconfirm", "pacman -R --noconfirm",
                  "pacman -Sc --noconfirm")]

\* setup_kubernetes_repo: the dict `commands`, built for a PackageManager
\* whose distro_id is d.  The two Debian-family lists are f-strings over
\* self.commands[self.distro_id], evaluated whatever d is.
DebRepoSteps(d) ==
  << <<CommandTable[d].install, " apt-transport-https ca-certificates curl gpg">>,
     <<"curl -fsSL https://pkgs.k8s.io/core:/stable:/v1.29/deb/Release.key | gpg --dearmor -o /etc/apt/keyrings/kubernetes-apt-keyring.gpg">>,
     <<"echo \"deb [signed-by=/etc/apt/keyrings/kubernetes-apt-keyring.gpg] https://pkgs.k8s.io/core:/stable:/v1.29/deb/ /\" > /etc/apt/sources.list.d/kubernetes.list">> >>
RpmRepoSteps == << <<"cat <<EOF > /etc/yum.repos.d/kubernetes.repo ... EOF">> >>
RepoFamilies == {"ubuntu", "debian", "fedora", "rhel", "centos"}
RepoSteps(d) ==
  IF d \in {"ubuntu", "debian"} THEN DebRepoSteps(d) ELSE RpmRepoSteps

\* a repository setup that leaves the package index as it was
RepoCommands_norefresh(d) == IF d \in RepoFamilies THEN RepoSteps(d) ELSE <<>>

\* the commands of one setup_kubernetes_repo call, the update verb last
RepoCommands(d) ==
  IF d \in RepoFamilies THEN Append(RepoSteps(d), <<CommandTable[d].update>>) ELSE <<>>

\* install_containerd: the package per family
ContainerdPackage(d) == IF d \in {"ubuntu", "debian"} THEN " containerd.io" ELSE " containerd"
ConfigDefault == <<"containerd config default > /etc/containerd/config.toml">>

\* f"curl -fsSL {plugins[plugin]['url']}" and what it prints
CurlFetch(url) == <<"curl -fsSL", url>>
ManifestText == <<"kind: DaemonSet">>

\* f"{plugin}-manifest.yaml"
ManifestFile(p) == <<p, "-manifest.yaml">>

\* K8sCluster.initialize_master
KubeadmInitConfig == <<"kubeadm init --config kubeadm-config.yaml">>

\* get_join_command
TokenCreate == <<"kubeadm token create --print-join-command">>

\* healthcheck
HealthCmds == << <<"kubectl get nodes">>, <<"kubectl get pods --all-namespaces">> >>

\* commands that only read the cluster
ReadOnlyCmds == {HealthCmds[1], HealthCmds[2]}

\* --join-command as given on the command line (given = FALSE: None)
JoinValid == <<"kubeadm join", "10.0.0.1:6443 --token t --discovery-token-ca-cert-hash sha256:h">>
JoinOther == <<"echo", "joined">>
JoinSemi  == <<"kubeadm join", "10.0.0.1:6443 --token t", ";", "reboot">>
JoinArgs ==
  {[given |-> FALSE, cmd |-> <<>>]}
    \cup {[given |-> TRUE, cmd |-> c] : c \in {<<>>, JoinValid, JoinOther, JoinSemi}}

\* stdout of `kubeadm init`: with and without the two-line join fragment
JoinLine == "kubeadm join 10.0.0.1:6443 --token t \\"
HashLine == "--discovery-token-ca-cert-hash sha256:h"
JoinFragment == <<JoinLine, "\n", "\t", HashLine>>
InitOutputs ==
  { <<"Your Kubernetes control-plane has initialized successfully!", "\n">>
      \o JoinFragment \o <<"\n">>,
    <<"Your Kubernetes control-plane has initialized successfully!", "\n">> }

\* stdout of `kubeadm token create --print-join-command`: one line, a new token
TokenOutputs ==
  { <<"kubeadm join 10.0.0.1:6443 --token t2 --discovery-token-ca-cert-hash sha256:h", "\n">>,
    <<>> }

\* some i <= Len(s) - Len(f) + 1 where f sits in s
Contains(s, f) ==
  \E i \in 1..(Len(s) - Len(f) + 1) : SubSeq(s, i, i + Len(f) - 1) = f

\* what the attempts of one run_command call in main may do
CmdOutcomes(S) ==
  [1..DefaultRetries ->
     {[kind |-> "ok", out |-> o] : o \in S} \cup {[kind |-> k, out |-> <<>>] : k \in FailKinds}]

(***************************************************************************)
(* The host.                                                               *)
(***************************************************************************)
AllFree == [i \in 1..Len(Ports) |-> "free"]

\* euid 0, total memory (MiB), CPU count, the four tools on PATH, and what
\* a connect probe of each control-plane port gives
Hosts ==
  [root : BOOLEAN, mem : MemValues, cpu : CpuValues, tools : BOOLEAN, probe : {AllFree}]

ProbeHosts ==
  [root : {TRUE}, mem : MemValues, cpu : CpuValues, tools : {TRUE},
   probe : [1..Len(Ports) -> ProbeResults]]

LowResources(h) == h.mem < 2 * MiBPerGiB \/ h.cpu < 2

\* the join-command file as long as this run has not written it
NoFile == [exists |-> FALSE, content |-> <<>>, mode |-> "none"]

(***************************************************************************)
(* What the run changes on the host.  A file is a sequence of lines, a     *)
(* line a sequence of tokens; <<>> is a file that is not there.            *)
(***************************************************************************)
RootLine == <<"UUID=1 /", " ext4 ", "defaults 0 1">>
SwapLine == <<"/swapfile none", " swap ", "sw 0 0">>

\* /etc/fstab before the run: with a swap entry, without one, and with one
\* that is commented out already
Fstabs == { <<RootLine, SwapLine>>, <<RootLine>>, <<RootLine, <<"#">> \o SwapLine>> }

\* sed -i '/ swap / s/^/#/' /etc/fstab: every line that contains " swap "
\* gets a "#" put before it
SedCommentSwap(file) ==
  [i \in 1..Len(file) |->
     IF \E j \in 1..Len(file[i]) : file[i][j] = " swap "
     THEN <<"#">> \o file[i] ELSE file[i]]

\* modules = ["overlay", "br_netfilter"]
Modules == <<"overlay", "br_netfilter">>
Modprobe(m) == <<"modprobe ", m>>

\* f.write("\n".join(modules)) into /etc/modules-load.d/k8s.conf
ModulesFile == << <<"overlay">>, <<"br_netfilter">> >>

\* sysctl_config, written as "key = value\n" lines into /etc/sysctl.d/k8s.conf
SysctlFile ==
  << <<"net.bridge.bridge-nf-call-iptables", " = ", "1">>,
     <<"net.bridge.bridge-nf-call-ip6tables", " = ", "1">>,
     <<"net.ipv4.ip_forward", " = ", "1">>,
     <<"net.ipv4.conf.all.forwarding", " = ", "1">>,
     <<"net.ipv6.conf.all.forwarding", " = ", "1">> >>

SysctlSystem == <<"sysctl --system">>

\* /etc/containerd/config.toml as `containerd config default` prints it:
\* with the cgroup-driver flag in the runc options, and, from a release that
\* has no such flag, without it
RuncOptions == "[plugins.\"io.containerd.grpc.v1.cri\".containerd.runtimes.runc.options]"
FlagFalse == "SystemdCgroup = false"
FlagTrue == "SystemdCgroup = true"
GeneratedConfigs ==
  { << <<"version = 2">>, <<" ", RuncOptions>>, <<" ", " ", FlagFalse>>, <<"[timeouts]">> >>,
    << <<"version = 2">>, <<" ", RuncOptions>>, <<"[timeouts]">> >> }

\* the line is, after its indentation, the flag set to false
IsFlagFalse(line) == LStrip(line) # <<>> /\ Head(LStrip(line)) = FlagFalse

\* re.sub(r'(\[...runc\.options\].*\n\s*)SystemdCgroup = false',
\*        r"\1SystemdCgroup = true", config, flags=re.DOTALL):
\* the match starts at the first header and, .* being greedy and matching
\* newlines, runs to the last flag line after it; that line is rewritten.
ReSub(file) ==
  LET hdrs == {i \in 1..Len(file) : \E j \in 1..Len(file[i]) : file[i][j] = RuncOptions}
  IN  IF hdrs = {} THEN file
      ELSE LET h == CHOOSE i \in hdrs : \A k \in hdrs : i <= k
               flags == {i \in (h + 1)..Len(file) : IsFlagFalse(file[i])}
           IN  IF flags = {} THEN file
               ELSE LET l == CHOOSE i \in flags : \A k \in flags : k <= i
                    IN  [file EXCEPT ![l] =
                           SubSeq(file[l], 1, Len(file[l]) - Len(LStrip(file[l])))
                             \o <<FlagTrue>> \o Tail(LStrip(file[l]))]

\* the host before anything ran: swap on, nothing of Kubernetes there
Sys0 ==
  [swapOn |-> TRUE, fstab |-> <<RootLine, SwapLine>>,
   modulesFile |-> <<>>, loaded |-> {}, sysctlFile |-> <<>>, sysctlLive |-> <<>>,
   kubeconfig |-> "none", manifest |-> [name |-> <<>>, content |-> <<>>],
   pkgs |-> {}, configToml |-> <<>>,
   etcKubernetes |-> "absent", backup |-> "none"]

\* reset_kubernetes: the two commands after the backup
ResetCmds == <<<<"kubeadm reset -f">>, <<"rm -rf ~/.kube">>>>

\* what shutil.copytree leaves at backup_dir: the whole tree, or, when it
\* raises, nothing or a part of it
CopytreeResults == {"copied", "none", "partial"}

\* what a command that exits with status 0 has done to the host; a command
\* that fails is taken to have changed nothing
Effect(c, s) ==
  CASE c = SwapCmds[1] -> [s EXCEPT !.swapOn = FALSE]
    [] c = SwapCmds[2] -> [s EXCEPT !.fstab = SedCommentSwap(@)]
    [] c \in {Modprobe(Modules[i]) : i \in 1..Len(Modules)} ->
         [s EXCEPT !.loaded = @ \cup {c[2]}]
    [] c = SysctlSystem -> [s EXCEPT !.sysctlLive = s.sysctlFile]
    [] Len(c) = 2 /\ c[2] \in {" containerd.io", " containerd"} ->
         [s EXCEPT !.pkgs = @ \cup {c[2]}]
    [] OTHER -> s

\* what the two commands of reset_kubernetes do when they exit with status 0
ResetEffect(c, s) ==
  CASE c = ResetCmds[1] -> [s EXCEPT !.etcKubernetes = "absent"]
    [] c = ResetCmds[2] -> [s EXCEPT !.kubeconfig = "none"]
    [] OTHER -> s

\* K8sCluster.configure_system, statement by statement: a command through
\* run_command, or the open(..., "w") and write of a file
ConfigureSteps_cross ==
  << [op |-> "run", cmd |-> SwapCmds[1]],
     [op |-> "run", cmd |-> SwapCmds[2]],
     [op |-> "write", cmd |-> <<"/etc/modules-load.d/k8s.conf">>],
     [op |-> "run", cmd |-> Modprobe(Modules[1])],
     [op |-> "run", cmd |-> Modprobe(Modules[2])],
     [op |-> "write", cmd |-> <<"/etc/sysctl.d/k8s.conf">>],
     [op |-> "run", cmd |-> SysctlSystem] >>

\* disable_swap of the debian script
ConfigureSteps_debian ==
  << [op |-> "run", cmd |-> SwapCmds[1]], [op |-> "run", cmd |-> SwapCmds[2]] >>

ConfigureSteps(v) == IF v = "cross" THEN ConfigureSteps_cross ELSE ConfigureSteps_debian

\* open(path, "w") and the writes: the file holds exactly the new text
Written(path, s) ==
  IF path = <<"/etc/modules-load.d/k8s.conf">> THEN [s EXCEPT !.modulesFile = ModulesFile]
  ELSE [s EXCEPT !.sysctlFile = SysctlFile]

\* locals of a directly called function, as long as they are not set
NoLocals ==
  [port |-> 0, plugin |-> "", manifest |-> <<>>, call |-> 0, first |-> Sys0,
   distro |-> "", distro_id |-> "", config |-> <<>>, generated |-> <<>>,
   backup_dir |-> ""]

(***************************************************************************)
(* State.                                                                  *)
(***************************************************************************)
VARIABLES
  entry,        \* "main", or the function called directly
  variant,      \* which script
  role,         \* args.role
  join,         \* args.join_command
  cfgFile,      \* the file args.config names
  host,         \* the machine
  pc,           \* [fn, i]: the function main is in and the statement in it
  config,       \* main's `config`
  executed,     \* command lines launched through run_command, in order
  started,      \* stages entered, in order
  completed,    \* stages that returned without an exception
  err,          \* the exception that ended the call, "none" if none
  exitCode,     \* -1 while running, then the process exit status
  joinFile,     \* the join-command file
  initOut,      \* what run_command returned for `kubeadm init`
  join_command, \* main's `join_command` (debian)
  envFault,     \* the environment made something fail (a command, a file)
  rc,           \* the frame of a direct run_command call
  sys,          \* what the commands and file writes change on the host
  frame         \* arguments and locals of any other function called directly

vars ==
  <<entry, variant, role, join, cfgFile, host, pc, config, executed, started,
    completed, err, exitCode, joinFile, initOut, join_command, envFault, rc,
    sys, frame>>

inputs == <<entry, variant, role, join, cfgFile, host>>

Exit == [fn |-> "exit", i |-> 0]
At(f, i) == pc = [fn |-> f, i |-> i]
Goto(f, i) == pc' = [fn |-> f, i |-> i]

NoFrame ==
  [cmd |-> <<>>, retries |-> 0, outs |-> <<>>, attempt |-> 0, launched |-> 0,
   status |-> "idle", none |-> FALSE, value |-> <<>>]

RcCmds == {<<"true">>, <<"echo a", ";", "echo b">>}

InitMain ==
  /\ entry = "main"
  /\ variant \in Variants
  /\ role \in {"master", "worker"}
  /\ join \in JoinArgs
  /\ cfgFile \in {f \in ConfigFiles : WellFormedFile(f)}
  /\ host \in Hosts
  /\ joinFile = NoFile
  /\ pc = [fn |-> IF variant = "cross" THEN "parse_args" ELSE "parse_arguments", i |-> 0]
  /\ rc = NoFrame
  /\ sys = Sys0
  /\ frame = NoLocals

InitRunCommand ==
  /\ entry = "run_command"
  /\ variant \in Variants
  /\ role = "master"
  /\ join = [given |-> FALSE, cmd |-> <<>>]
  /\ cfgFile = CHOOSE f \in ConfigFiles : f.kind = "missing"
  /\ host = [root |-> TRUE, mem |-> 2 * MiBPerGiB, cpu |-> 2, tools |-> TRUE, probe |-> AllFree]
  /\ joinFile = NoFile
  /\ pc = [fn |-> "run_command", i |-> 0]
  /\ \E c \in RcCmds, n \in 0..MaxRetries, o \in [1..MaxRetries -> AttemptOutcomes] :
       rc = [NoFrame EXCEPT !.cmd = c, !.retries = n, !.outs = o, !.status = "called"]
  /\ sys = Sys0
  /\ frame = NoLocals

InitDeploy ==
  /\ entry = "deploy_network_plugin"
  /\ variant \in Variants
  /\ role = "master"
  /\ join = [given |-> FALSE, cmd |-> <<>>]
  /\ cfgFile = CHOOSE f \in ConfigFiles : f.kind = "missing"
  /\ host = [root |-> TRUE, mem |-> 2 * MiBPerGiB, cpu |-> 2, tools |-> TRUE, probe |-> AllFree]
  /\ joinFile = NoFile
  /\ pc = [fn |-> "deploy_network_plugin", i |-> 0]
  /\ rc = NoFrame
  /\ sys = Sys0
  /\ \E p \in PluginArgs : frame = [NoLocals EXCEPT !.plugin = p]

\* the system configurator called twice in a row on some host
InitConfigure ==
  /\ entry = "configure_system"
  /\ variant \in Variants
  /\ role = "master"
  /\ join = [given |-> FALSE, cmd |-> <<>>]
  /\ cfgFile = CHOOSE f \in ConfigFiles : f.kind = "missing"
  /\ host = [root |-> TRUE, mem |-> 2 * MiBPerGiB, cpu |-> 2, tools |-> TRUE, probe |-> AllFree]
  /\ joinFile = NoFile
  /\ pc = [fn |-> "configure_system", i |-> 1]
  /\ rc = NoFrame
  /\ \E f \in Fstabs, on \in BOOLEAN : sys = [Sys0 EXCEPT !.fstab = f, !.swapOn = on]
  /\ frame = [NoLocals EXCEPT !.call = 1]

\* PackageManager(distro), alone or followed by one call of
\* setup_kubernetes_repo() or of ContainerRuntime(pkg_mgr).install_containerd()
InitDistro ==
  /\ entry \in {"PackageManager", "setup_kubernetes_repo", "install_containerd"}
  /\ variant = "cross"
  /\ role = "master"
  /\ join = [given |-> FALSE, cmd |-> <<>>]
  /\ cfgFile = CHOOSE f \in ConfigFiles : f.kind = "missing"
  /\ host = [root |-> TRUE, mem |-> 2 * MiBPerGiB, cpu |-> 2, tools |-> TRUE, probe |-> AllFree]
  /\ joinFile = NoFile
  /\ pc = [fn |-> "PackageManager", i |-> 0]
  /\ rc = NoFrame
  /\ sys = Sys0
  /\ \E d \in DistroIds : frame = [NoLocals EXCEPT !.distro = d]

\* reset_kubernetes() on a host with or without a cluster configuration
InitReset ==
  /\ entry = "reset_kubernetes"
  /\ variant = "debian"
  /\ role = "master"
  /\ join = [given |-> FALSE, cmd |-> <<>>]
  /\ cfgFile = CHOOSE f \in ConfigFiles : f.kind = "missing"
  /\ host = [root |-> TRUE, mem |-> 2 * MiBPerGiB, cpu |-> 2, tools |-> TRUE, probe |-> AllFree]
  /\ joinFile = NoFile
  /\ pc = [fn |-> "backup_kubernetes_config", i |-> 0]
  /\ rc = NoFrame
  /\ \E e \in {"absent", "present"}, k \in {"none", "0o600", "0o644"} :
       sys = [Sys0 EXCEPT !.etcKubernetes = e, !.kubeconfig = k]
  /\ frame = NoLocals

\* K8sCluster(config).initialize_master() with a config that has both keys
InitInitializeMaster ==
  /\ entry = "initialize_master"
  /\ variant = "cross"
  /\ role = "master"
  /\ join = [given |-> FALSE, cmd |-> <<>>]
  /\ cfgFile \in {f \in ConfigFiles :
                    /\ WellFormedFile(f) /\ f.kind = "mapping" /\ ~MissingFields(f)
                    /\ ~f.mon /\ ~f.log}
  /\ host = [root |-> TRUE, mem |-> 2 * MiBPerGiB, cpu |-> 2, tools |-> TRUE, probe |-> AllFree]
  /\ joinFile = NoFile
  /\ pc = [fn |-> "initialize_master", i |-> 0]
  /\ rc = NoFrame
  /\ sys = Sys0
  /\ frame = [NoLocals EXCEPT !.plugin = cfgFile.plugin]

InitCheck ==
  /\ entry = "check"
  /\ variant \in Variants
  /\ role = "master"
  /\ join = [given |-> FALSE, cmd |-> <<>>]
  /\ cfgFile = CHOOSE f \in ConfigFiles : f.kind = "missing"
  /\ host \in ProbeHosts \cup Hosts
  /\ joinFile = NoFile
  /\ pc = [fn |-> "check", i |-> 0]
  /\ rc = NoFrame
  /\ sys = Sys0
  /\ frame = NoLocals

Init ==
  /\ \/ InitMain \/ InitRunCommand \/ InitCheck \/ InitDeploy \/ InitConfigure
     \/ InitDistro \/ InitInitializeMaster \/ InitReset
  /\ config = IF entry = "initialize_master" THEN FileConfig(cfgFile) ELSE NoConfig
  /\ executed = <<>>
  /\ started = <<>>
  /\ completed = {}
  /\ err = "none"
  /\ exitCode = -1
  /\ initOut = <<>>
  /\ join_command = <<>>
  /\ envFault = FALSE


(***************************************************************************)
(* Building blocks of the actions.                                         *)
(***************************************************************************)
\* a main whose handler ends the process as if nothing had happened
Raise_status0(e) == /\ err' = e /\ exitCode' = 0 /\ pc' = Exit

\* an exception reaches the top of main: sys.exit(1), or the interpreter's
\* exit status 1 for an uncaught one
Raise(e) == /\ err' = e /\ exitCode' = 1 /\ pc' = Exit

\* run_command launched the child at least once
Launch(c, r) == executed' = IF r.attempts > 0 THEN Append(executed, c) ELSE executed

\* run_command raised: e is what the enclosing function lets out
CmdFailed(r, e) ==
  /\ Raise(e)
  /\ envFault' = (envFault \/ r.status # "InvalidCommand")

Enter(stage) == started' = Append(started, stage)
Finish(stage) == completed' = completed \cup {stage}

\* logging.info("Setup complete!") and the end of main
Complete == /\ exitCode' = 0 /\ pc' = Exit /\ UNCHANGED err

(***************************************************************************)
(* debian main                                                             *)
(***************************************************************************)
\* args = parse_arguments(): --join-command is optional for every role
parse_arguments ==
  /\ entry = "main" /\ variant = "debian" /\ At("parse_arguments", 0)
  /\ Goto("load_config", 0)
  /\ UNCHANGED <<inputs, config, executed, started, completed, err, exitCode,
                 joinFile, initOut, join_command, envFault, rc, sys, frame>>

\* config = load_config(args.config), in either main
main_load_config ==
  /\ entry = "main" /\ At("load_config", 0)
  /\ LET r == load_config(variant, cfgFile)
     IN  IF r.err = "none"
         THEN /\ config' = r.config
              /\ IF variant = "cross" THEN Goto("PackageManager", 0)
                 ELSE Goto("check_system_requirements", 0)
              /\ UNCHANGED <<err, exitCode>>
         ELSE /\ Raise(r.err)
              /\ UNCHANGED config
  /\ UNCHANGED <<inputs, executed, started, completed, joinFile, initOut,
                 join_command, envFault, rc, sys, frame>>

\* check_system_requirements()
main_check_system_requirements ==
  /\ entry = "main" /\ variant = "debian" /\ At("check_system_requirements", 0)
  /\ Enter("prereq")
  /\ LET e == check_system_requirements(host)
     IN  IF e = "none"
         THEN /\ Finish("prereq")
              /\ Goto("install_prerequisites", 1)
              /\ UNCHANGED <<err, exitCode>>
         ELSE /\ Raise(e)
              /\ UNCHANGED completed
  /\ UNCHANGED <<inputs, config, executed, joinFile, initOut, join_command,
                 envFault, rc, sys, frame>>

\* install_prerequisites(): the i-th command of the list
install_prerequisites ==
  \E i \in 1..Len(InstallCmds), outs \in CmdOutcomes({<<>>}) :
    /\ entry = "main" /\ At("install_prerequisites", i)
    /\ LET c == InstallCmds[i]
           r == RunCommand(variant, c, outs, DefaultRetries)
       IN  /\ Launch(c, r)
           /\ started' = IF i = 1 THEN Append(started, "packages") ELSE started
           /\ IF r.status = "returned"
              THEN /\ IF i = Len(InstallCmds)
                      THEN Finish("packages") /\ Goto("disable_swap", 1)
                      ELSE Goto("install_prerequisites", i + 1) /\ UNCHANGED completed
                   /\ UNCHANGED <<err, exitCode, envFault>>
              ELSE /\ CmdFailed(r, r.status)
                   /\ UNCHANGED completed
    /\ UNCHANGED <<inputs, config, joinFile, initOut, join_command, rc, sys, frame>>

\* disable_swap(), then the branch on args.role
disable_swap ==
  \E i \in 1..Len(SwapCmds), outs \in CmdOutcomes({<<>>}) :
    /\ entry = "main" /\ At("disable_swap", i)
    /\ LET c == SwapCmds[i]
           r == RunCommand(variant, c, outs, DefaultRetries)
       IN  /\ Launch(c, r)
           /\ sys' = IF r.status = "returned" THEN Effect(c, sys) ELSE sys
           /\ started' = IF i = 1 THEN Append(started, "sysconfig") ELSE started
           /\ IF r.status = "returned"
              THEN /\ IF i = Len(SwapCmds)
                      THEN /\ Finish("sysconfig")
                           /\ IF role = "master" THEN Goto("initialize_master", 0)
                              ELSE Goto("worker", 0)
                      ELSE Goto("disable_swap", i + 1) /\ UNCHANGED completed
                   /\ UNCHANGED <<err, exitCode, envFault>>
              ELSE /\ CmdFailed(r, r.status)
                   /\ UNCHANGED completed
    /\ UNCHANGED <<inputs, config, joinFile, initOut, join_command, rc, frame>>

\* initialize_master(config["pod_network_cidr"]) up to configure_kubectl():
\* validate_network_config, then kubeadm init
initialize_master ==
  /\ entry = "main" /\ At("initialize_master", 0)
  /\ Enter("master")
  /\ IF ~IpNetworkOk(config.cidr)
     THEN /\ Raise("InvalidCidr")
          /\ UNCHANGED <<executed, initOut, envFault>>
     ELSE \E outs \in CmdOutcomes(InitOutputs) :
            LET c == KubeadmInit(config.cidr)
                r == RunCommand(variant, c, outs, DefaultRetries)
            IN  /\ Launch(c, r)
                /\ IF r.status = "returned"
                   THEN /\ initOut' = r.value
                        /\ Goto("configure_kubectl", 1)
                        /\ UNCHANGED <<err, exitCode, envFault>>
                   ELSE /\ CmdFailed(r, r.status)
                        /\ UNCHANGED initOut
  /\ UNCHANGED <<inputs, config, completed, joinFile, join_command, rc, sys, frame>>

\* configure_kubectl(): any exception leaves as K8sSetupError.  HOME is set
\* and os.makedirs(exist_ok=True) succeeds.  cp gives a new $HOME/.kube/config
\* the mode of admin.conf, which kubeadm writes owner-only; a config that is
\* there already keeps its mode ("0o644" stands for it); chown changes no mode.
configure_kubectl ==
  \E i \in 1..Len(KubectlCmds), outs \in CmdOutcomes({<<>>}), existed \in BOOLEAN :
    /\ entry = "main" /\ At("configure_kubectl", i)
    /\ LET c == KubectlCmds[i]
           r == RunCommand(variant, c, outs, DefaultRetries)
       IN  /\ Launch(c, r)
           /\ sys' = IF i = 1 /\ r.status = "returned"
                     THEN [sys EXCEPT !.kubeconfig = IF existed THEN "0o644" ELSE "0o600"]
                     ELSE sys
           /\ IF r.status = "returned"
              THEN /\ IF i = Len(KubectlCmds)
                      THEN Goto("deploy_network_plugin", 0)
                      ELSE Goto("configure_kubectl", i + 1)
                   /\ UNCHANGED <<err, exitCode, envFault>>
              ELSE CmdFailed(r, "ConfigureKubectlFailed")
    /\ UNCHANGED <<inputs, config, started, completed, joinFile, initOut,
                   join_command, rc, frame>>

\* a deployment whose failure is recorded and the run goes on
deploy_network_plugin_goes_on ==
  /\ entry = "main" /\ At("deploy_network_plugin", 0)
  /\ \E outs \in CmdOutcomes({<<>>}) :
       LET c == KubectlApply(PluginUrl_debian(config.plugin))
           r == RunCommand(variant, c, outs, DefaultRetries)
       IN  /\ Launch(c, r)
           /\ err' = IF r.status = "returned" THEN err ELSE r.status
           /\ envFault' = (envFault \/ r.status # "returned")
  /\ Goto("get_join_command", 0)
  /\ UNCHANGED <<inputs, config, started, completed, exitCode, joinFile, initOut,
                 join_command, rc, sys, frame>>

\* deploy_network_plugin(config["network_plugin"]) of the debian script
deploy_network_plugin ==
  /\ entry = "main" /\ At("deploy_network_plugin", 0)
  /\ IF config.plugin \notin PluginNames_debian
     THEN /\ Raise("UnsupportedPlugin")
          /\ UNCHANGED <<executed, envFault>>
     ELSE \E outs \in CmdOutcomes({<<>>}) :
            LET c == KubectlApply(PluginUrl_debian(config.plugin))
                r == RunCommand(variant, c, outs, DefaultRetries)
            IN  /\ Launch(c, r)
                /\ IF r.status = "returned"
                   THEN /\ Goto("get_join_command", 0)
                        /\ UNCHANGED <<err, exitCode, envFault>>
                   ELSE CmdFailed(r, r.status)
  /\ UNCHANGED <<inputs, config, started, completed, joinFile, initOut,
                 join_command, rc, sys, frame>>

\* join_command = get_join_command()
get_join_command ==
  \E outs \in CmdOutcomes(TokenOutputs) :
    /\ entry = "main" /\ At("get_join_command", 0)
    /\ LET r == RunCommand(variant, TokenCreate, outs, DefaultRetries)
       IN  /\ Launch(TokenCreate, r)
           /\ IF r.status = "returned"
              THEN /\ join_command' = r.value
                   /\ Goto("save_join_command", 1)
                   /\ UNCHANGED <<err, exitCode, envFault>>
              ELSE /\ CmdFailed(r, r.status)
                   /\ UNCHANGED join_command
    /\ UNCHANGED <<inputs, config, started, completed, joinFile, initOut, rc, sys, frame>>

\* save_join_command(join_command): open and write (i = 1), os.chmod (i = 2);
\* an IOError of either leaves as K8sSetupError.  open(filename, "w") keeps
\* the mode of a file that is already there ("0o644" stands for it) and
\* creates a new one with the process's default mode.
save_join_command ==
  \E ok \in BOOLEAN, existed \in BOOLEAN :
    /\ entry = "main"
    /\ \/ /\ At("save_join_command", 1)
          /\ IF ok
             THEN /\ joinFile' =
                       [exists |-> TRUE, content |-> join_command,
                        mode |-> IF existed THEN "0o644" ELSE "default"]
                  /\ Goto("save_join_command", 2)
                  /\ UNCHANGED <<err, exitCode, envFault>>
             ELSE /\ Raise("SaveFailed")
                  /\ envFault' = TRUE
                  /\ UNCHANGED joinFile
       \/ /\ At("save_join_command", 2)
          /\ IF ok
             THEN /\ joinFile' = [joinFile EXCEPT !.mode = "0o600"]
                  /\ Goto("healthcheck", 1)
                  /\ UNCHANGED <<err, exitCode, envFault>>
             ELSE /\ Raise("SaveFailed")
                  /\ envFault' = TRUE
                  /\ UNCHANGED joinFile
    /\ UNCHANGED <<inputs, config, executed, started, completed, initOut,
                   join_command, rc, sys, frame>>

\* healthcheck(), then main's last statement
healthcheck ==
  \E i \in 1..Len(HealthCmds), outs \in CmdOutcomes({<<>>}) :
    /\ entry = "main" /\ At("healthcheck", i)
    /\ LET c == HealthCmds[i]
           r == RunCommand(variant, c, outs, DefaultRetries)
       IN  /\ Launch(c, r)
           /\ IF r.status = "returned"
              THEN /\ IF i = Len(HealthCmds)
                      THEN Finish("master") /\ Complete
                      ELSE /\ Goto("healthcheck", i + 1)
                           /\ UNCHANGED <<completed, err, exitCode>>
                   /\ UNCHANGED envFault
              ELSE /\ CmdFailed(r, "HealthCheckFailed")
                   /\ UNCHANGED completed
    /\ UNCHANGED <<inputs, config, started, joinFile, initOut, join_command, rc, sys, frame>>

\* the worker branch of the debian main: the check of args.join_command,
\* then join_worker_node(args.join_command)
join_worker_node ==
  /\ entry = "main" /\ At("worker", 0)
  /\ Enter("worker")
  /\ IF ~join.given \/ join.cmd = <<>>
     THEN /\ Raise("MissingJoinCommand")
          /\ UNCHANGED <<executed, completed, envFault>>
     ELSE IF ~StartsWithKubeadmJoin(join.cmd)
     THEN /\ Raise("InvalidJoinCommand")
          /\ UNCHANGED <<executed, completed, envFault>>
     ELSE \E outs \in CmdOutcomes({<<>>}) :
            LET r == RunCommand(variant, join.cmd, outs, DefaultRetries)
            IN  /\ Launch(join.cmd, r)
                /\ IF r.status = "returned"
                   THEN /\ Finish("worker") /\ Complete
                        /\ UNCHANGED envFault
                   ELSE /\ CmdFailed(r, r.status)
                        /\ UNCHANGED completed
  /\ UNCHANGED <<inputs, config, joinFile, initOut, join_command, rc, sys, frame>>


(***************************************************************************)
(* cross-distro main                                                       *)
(***************************************************************************)
\* PackageManager.__init__(distro_id): distro_id.lower() needs a str
PackageManager_init(argType) == IF argType = "str" THEN "none" ELSE "AttributeError"

\* K8sCluster.__init__(config): self.system_info.distro is the dict that
\* detect_distro returns, and it is handed to PackageManager as it is
K8sCluster_init == PackageManager_init("dict")

\* args = parse_args(): --join-command is required when both "--role" and
\* "worker" are elements of sys.argv ("--role worker", not "--role=worker");
\* argparse then ends the process with status 2
parse_args ==
  \E form \in {"split", "joined"} :
    /\ entry = "main" /\ variant = "cross" /\ At("parse_args", 0)
    /\ IF form = "split" /\ role = "worker" /\ ~join.given
       THEN /\ err' = "ArgparseError" /\ exitCode' = 2 /\ pc' = Exit
       ELSE /\ Goto("geteuid", 0)
            /\ UNCHANGED <<err, exitCode>>
    /\ UNCHANGED <<inputs, config, executed, started, completed, joinFile,
                   initOut, join_command, envFault, rc, sys, frame>>

\* if os.geteuid() != 0: raise K8sSetupError, outside main's try
main_geteuid ==
  /\ entry = "main" /\ variant = "cross" /\ At("geteuid", 0)
  /\ IF host.root
     THEN Goto("load_config", 0) /\ UNCHANGED <<err, exitCode>>
     ELSE Raise("NotRoot")
  /\ UNCHANGED <<inputs, config, executed, started, completed, joinFile,
                 initOut, join_command, envFault, rc, sys, frame>>

\* package_manager = PackageManager(SystemInfo().distro.get("ID", "")):
\* detect_distro raises K8sSetupError when /etc/os-release is missing
main_PackageManager ==
  \E osRelease \in BOOLEAN :
    /\ entry = "main" /\ variant = "cross" /\ At("PackageManager", 0)
    /\ IF ~osRelease
       THEN Raise("DistroDetection") /\ envFault' = TRUE
       ELSE IF PackageManager_init("str") = "none"
       THEN Goto("K8sCluster", 0) /\ UNCHANGED <<err, exitCode, envFault>>
       ELSE Raise(PackageManager_init("str")) /\ UNCHANGED envFault
    /\ UNCHANGED <<inputs, config, executed, started, completed, joinFile,
                   initOut, join_command, rc, sys, frame>>

\* cluster = K8sCluster(package_manager), still outside main's try
main_K8sCluster ==
  /\ entry = "main" /\ variant = "cross" /\ At("K8sCluster", 0)
  /\ IF K8sCluster_init = "none"
     THEN Goto("check_prerequisites", 0) /\ UNCHANGED <<err, exitCode>>
     ELSE Raise(K8sCluster_init)
  /\ UNCHANGED <<inputs, config, executed, started, completed, joinFile,
                 initOut, join_command, envFault, rc, sys, frame>>

(***************************************************************************)
(* Direct calls.                                                           *)
(***************************************************************************)
\* run_command(cmd, retries=n): the guard before the loop
run_command_guard ==
  /\ entry = "run_command" /\ At("run_command", 0)
  /\ IF RejectsCommand(variant, rc.cmd)
     THEN /\ rc' = [rc EXCEPT !.status = "InvalidCommand"]
          /\ err' = "InvalidCommand"
          /\ pc' = Exit
     ELSE /\ rc' = [rc EXCEPT !.status = "running"]
          /\ Goto("run_command", 1)
          /\ UNCHANGED err
  /\ UNCHANGED <<inputs, config, executed, started, completed, exitCode,
                 joinFile, initOut, join_command, envFault, sys, frame>>

\* run_command: one iteration of `for attempt in range(retries)`, or the
\* end of the loop
run_command_attempt ==
  /\ entry = "run_command" /\ At("run_command", 1)
  /\ IF rc.attempt >= rc.retries
     THEN /\ rc' = [rc EXCEPT !.status = "returned", !.none = TRUE]
          /\ pc' = Exit
          /\ UNCHANGED <<err, executed>>
     ELSE LET o == rc.outs[rc.attempt + 1]
              s == AttemptStep(variant, o.kind, rc.attempt, rc.retries)
          IN  /\ executed' = Append(executed, rc.cmd)
              /\ CASE s = "return" ->
                        /\ rc' = [rc EXCEPT !.status = "returned",
                                            !.value = Strip(o.out),
                                            !.launched = @ + 1]
                        /\ pc' = Exit
                        /\ UNCHANGED err
                   [] s = "next" ->
                        /\ rc' = [rc EXCEPT !.attempt = @ + 1, !.launched = @ + 1]
                        /\ UNCHANGED <<pc, err>>
                   [] OTHER ->
                        /\ rc' = [rc EXCEPT !.status = s, !.launched = @ + 1]
                        /\ err' = s
                        /\ pc' = Exit
  /\ UNCHANGED <<inputs, config, started, completed, exitCode, joinFile,
                 initOut, join_command, envFault, sys, frame>>

\* check_system_requirements() / K8sCluster.check_prerequisites(self)
call_check ==
  /\ entry = "check" /\ At("check", 0)
  /\ Enter("prereq")
  /\ LET e == IF variant = "cross" THEN check_prerequisites(host)
              ELSE check_system_requirements(host)
     IN  /\ err' = e
         /\ completed' = IF e = "none" THEN {"prereq"} ELSE {}
  /\ frame' = [frame EXCEPT !.port =
                  IF variant = "cross" THEN check_prerequisites_port(host) ELSE 0]
  /\ pc' = Exit
  /\ UNCHANGED <<inputs, config, executed, exitCode, joinFile, initOut,
                 join_command, envFault, rc, sys>>

\* deploy_network_plugin(plugin) of the debian script, called directly
call_deploy_network_plugin_debian ==
  /\ entry = "deploy_network_plugin" /\ variant = "debian"
  /\ At("deploy_network_plugin", 0)
  /\ IF frame.plugin \notin PluginNames_debian
     THEN /\ err' = "UnsupportedPlugin" /\ pc' = Exit
          /\ UNCHANGED <<executed, envFault>>
     ELSE \E outs \in CmdOutcomes({<<>>}) :
            LET c == KubectlApply(PluginUrl_debian(frame.plugin))
                r == RunCommand(variant, c, outs, DefaultRetries)
            IN  /\ Launch(c, r)
                /\ pc' = Exit
                /\ err' = IF r.status = "returned" THEN "none" ELSE r.status
                /\ envFault' = (r.status # "returned")
  /\ UNCHANGED <<inputs, config, started, completed, exitCode, joinFile,
                 initOut, join_command, rc, sys, frame>>

\* K8sCluster.initialize_master(self), called directly: ip_network and the
\* write of kubeadm-config.yaml (i = 0), kubeadm init (i = 1), shutil.copy of
\* admin.conf, which copies its owner-only mode too (i = 2), os.chmod (i = 3),
\* then self.deploy_network_plugin(); `return output` ends the call there.
call_initialize_master ==
  /\ entry = "initialize_master"
  /\ \/ /\ At("initialize_master", 0)
        /\ \E ok \in BOOLEAN :
             IF ~IpNetworkOk(config.cidr)
             THEN err' = "InvalidCidr" /\ pc' = Exit /\ UNCHANGED envFault
             ELSE IF ok
             THEN Goto("initialize_master", 1) /\ UNCHANGED <<err, envFault>>
             ELSE err' = "OSError" /\ pc' = Exit /\ envFault' = TRUE
        /\ UNCHANGED <<executed, initOut, sys>>
     \/ /\ At("initialize_master", 1)
        /\ \E outs \in CmdOutcomes(InitOutputs) :
             LET r == RunCommand(variant, KubeadmInitConfig, outs, DefaultRetries)
             IN  /\ Launch(KubeadmInitConfig, r)
                 /\ IF r.status = "returned"
                    THEN /\ initOut' = r.value
                         /\ Goto("initialize_master", 2)
                         /\ UNCHANGED <<err, envFault>>
                    ELSE /\ err' = r.status /\ pc' = Exit
                         /\ envFault' = TRUE
                         /\ UNCHANGED initOut
        /\ UNCHANGED sys
     \/ /\ At("initialize_master", 2)
        /\ \E ok \in BOOLEAN :
             IF ok
             THEN /\ sys' = [sys EXCEPT !.kubeconfig = "0o600"]
                  /\ Goto("initialize_master", 3)
                  /\ UNCHANGED <<err, envFault>>
             ELSE /\ err' = "OSError" /\ pc' = Exit /\ envFault' = TRUE
                  /\ UNCHANGED sys
        /\ UNCHANGED <<executed, initOut>>
     \/ /\ At("initialize_master", 3)
        /\ \E ok \in BOOLEAN :
             IF ok
             THEN /\ sys' = [sys EXCEPT !.kubeconfig = "0o600"]
                  /\ Goto("deploy_network_plugin", 0)
                  /\ UNCHANGED <<err, envFault>>
             ELSE /\ err' = "OSError" /\ pc' = Exit /\ envFault' = TRUE
                  /\ UNCHANGED sys
        /\ UNCHANGED <<executed, initOut>>
  /\ UNCHANGED <<inputs, config, started, completed, exitCode, joinFile,
                 join_command, rc, frame>>

\* K8sCluster.deploy_network_plugin(self) with self.config["network_plugin"]
\* = frame.plugin: the lookup and the curl (i = 0), the write of the
\* manifest file (i = 1), kubectl apply (i = 2).  plugins[plugin]["config"]
\* is empty for both plugins, so the manifest is passed through.
call_deploy_network_plugin_cross ==
  /\ entry \in {"deploy_network_plugin", "initialize_master"} /\ variant = "cross"
  /\ LET plugin == Lower(frame.plugin)
     IN  \/ /\ At("deploy_network_plugin", 0)
            /\ IF plugin = "" \/ plugin \notin PluginNames_cross
               THEN /\ err' = "UnsupportedPlugin" /\ pc' = Exit
                    /\ UNCHANGED <<executed, envFault, frame, sys>>
               ELSE \E outs \in CmdOutcomes({ManifestText}) :
                      LET c == CurlFetch(PluginUrl_cross(plugin))
                          r == RunCommand(variant, c, outs, DefaultRetries)
                      IN  /\ Launch(c, r)
                          /\ UNCHANGED sys
                          /\ IF r.status = "returned"
                             THEN /\ frame' = [frame EXCEPT !.manifest = r.value]
                                  /\ Goto("deploy_network_plugin", 1)
                                  /\ UNCHANGED <<err, envFault>>
                             ELSE /\ err' = r.status /\ pc' = Exit
                                  /\ envFault' = TRUE
                                  /\ UNCHANGED frame
         \/ /\ At("deploy_network_plugin", 1)
            /\ \E ok \in BOOLEAN :
                 IF ok
                 THEN /\ sys' = [sys EXCEPT !.manifest =
                                   [name |-> ManifestFile(plugin), content |-> frame.manifest]]
                      /\ Goto("deploy_network_plugin", 2)
                      /\ UNCHANGED <<err, envFault>>
                 ELSE /\ err' = "OSError" /\ pc' = Exit
                      /\ envFault' = TRUE
                      /\ UNCHANGED sys
            /\ UNCHANGED <<executed, frame>>
         \/ /\ At("deploy_network_plugin", 2)
            /\ \E outs \in CmdOutcomes({<<>>}) :
                 LET c == <<"kubectl apply -f">> \o ManifestFile(plugin)
                     r == RunCommand(variant, c, outs, DefaultRetries)
                 IN  /\ Launch(c, r)
                     /\ pc' = Exit
                     /\ err' = IF r.status = "returned" THEN "none" ELSE r.status
                     /\ envFault' = (r.status # "returned")
            /\ UNCHANGED <<frame, sys>>
  /\ UNCHANGED <<inputs, config, started, completed, exitCode, joinFile,
                 initOut, join_command, rc>>

\* K8sCluster.configure_system(self) / disable_swap(), called once and then
\* once more: statement i of call frame.call.  An exception of a command or
\* of a file write ends the call; the second call starts when the first
\* has returned, and frame.first keeps the host as the first call left it.
call_configure_system ==
  \E i \in 1..Len(ConfigureSteps(variant)) :
    /\ entry = "configure_system" /\ At("configure_system", i)
    /\ LET step == ConfigureSteps(variant)[i]
           last == i = Len(ConfigureSteps(variant))
           Return(s) ==
             IF ~last THEN Goto("configure_system", i + 1) /\ UNCHANGED frame
             ELSE IF frame.call = 1
             THEN /\ frame' = [frame EXCEPT !.call = 2, !.first = s]
                  /\ Goto("configure_system", 1)
             ELSE pc' = Exit /\ UNCHANGED frame
       IN  IF step.op = "run"
           THEN \E outs \in CmdOutcomes({<<>>}) :
                  LET r == RunCommand(variant, step.cmd, outs, DefaultRetries)
                  IN  /\ Launch(step.cmd, r)
                      /\ IF r.status = "returned"
                         THEN /\ sys' = Effect(step.cmd, sys)
                              /\ Return(Effect(step.cmd, sys))
                              /\ UNCHANGED <<err, envFault>>
                         ELSE /\ err' = r.status /\ pc' = Exit
                              /\ envFault' = TRUE
                              /\ UNCHANGED <<sys, frame>>
           ELSE \E ok \in BOOLEAN :
                  /\ UNCHANGED executed
                  /\ IF ok
                     THEN /\ sys' = Written(step.cmd, sys)
                          /\ Return(Written(step.cmd, sys))
                          /\ UNCHANGED <<err, envFault>>
                     ELSE /\ err' = "OSError" /\ pc' = Exit
                          /\ envFault' = TRUE
                          /\ UNCHANGED <<sys, frame>>
    /\ UNCHANGED <<inputs, config, started, completed, exitCode, joinFile,
                   initOut, join_command, rc>>

\* PackageManager.__init__(distro_id) with a str: it lower-cases the
\* identifier and stores the whole table; nothing is looked up yet
call_PackageManager ==
  /\ entry \in {"PackageManager", "setup_kubernetes_repo", "install_containerd"}
  /\ At("PackageManager", 0)
  /\ IF PackageManager_init("str") = "none"
     THEN /\ frame' = [frame EXCEPT !.distro_id = Lower(frame.distro)]
          /\ IF entry = "PackageManager" THEN pc' = Exit ELSE Goto(entry, 0)
          /\ UNCHANGED err
     ELSE /\ err' = PackageManager_init("str") /\ pc' = Exit
          /\ UNCHANGED frame
  /\ UNCHANGED <<inputs, config, executed, started, completed, exitCode,
                 joinFile, initOut, join_command, envFault, rc, sys>>

\* PackageManager.setup_kubernetes_repo(self): the dict literal (i = 0),
\* whose f-strings look self.commands[self.distro_id] up, then the commands
\* of the family and the update verb (i >= 1)
call_setup_kubernetes_repo ==
  /\ entry = "setup_kubernetes_repo"
  /\ LET d == frame.distro_id
     IN  \/ /\ At("setup_kubernetes_repo", 0)
            /\ IF d \notin DOMAIN CommandTable
               THEN err' = "KeyError" /\ pc' = Exit
               ELSE IF d \notin RepoFamilies
               THEN pc' = Exit /\ UNCHANGED err
               ELSE Goto("setup_kubernetes_repo", 1) /\ UNCHANGED err
            /\ UNCHANGED <<executed, envFault>>
         \/ \E i \in 1..Len(RepoCommands(d)), outs \in CmdOutcomes({<<>>}) :
              /\ At("setup_kubernetes_repo", i)
              /\ LET c == RepoCommands(d)[i]
                     r == RunCommand(variant, c, outs, DefaultRetries)
                 IN  /\ Launch(c, r)
                     /\ IF r.status = "returned"
                        THEN /\ IF i = Len(RepoCommands(d)) THEN pc' = Exit
                                ELSE Goto("setup_kubernetes_repo", i + 1)
                             /\ UNCHANGED <<err, envFault>>
                        ELSE /\ err' = r.status /\ pc' = Exit
                             /\ envFault' = TRUE
  /\ UNCHANGED <<inputs, config, started, completed, exitCode, joinFile,
                 initOut, join_command, rc, sys, frame>>

\* ContainerRuntime.install_containerd(self): the package by family (i = 0),
\* the default configuration written by the shell (i = 1), then the file is
\* read and the substitution made on the local `config` (i = 2), which is
\* where the function ends.  frame.generated keeps what the generator printed.
call_install_containerd ==
  /\ entry = "install_containerd"
  /\ LET d == frame.distro_id
     IN  \/ /\ At("install_containerd", 0)
            /\ IF d \notin {"ubuntu", "debian", "fedora", "centos", "rhel", "arch", "suse"}
               THEN /\ err' = "UnsupportedDistro" /\ pc' = Exit
                    /\ UNCHANGED <<executed, envFault, sys>>
               ELSE \E outs \in CmdOutcomes({<<>>}) :
                      LET c == <<CommandTable[d].install, ContainerdPackage(d)>>
                          r == RunCommand(variant, c, outs, DefaultRetries)
                      IN  /\ Launch(c, r)
                          /\ IF r.status = "returned"
                             THEN /\ sys' = Effect(c, sys)
                                  /\ Goto("install_containerd", 1)
                                  /\ UNCHANGED <<err, envFault>>
                             ELSE /\ err' = r.status /\ pc' = Exit
                                  /\ envFault' = TRUE
                                  /\ UNCHANGED sys
            /\ UNCHANGED frame
         \/ /\ At("install_containerd", 1)
            /\ \E outs \in CmdOutcomes({<<>>}), g \in GeneratedConfigs :
                 LET r == RunCommand(variant, ConfigDefault, outs, DefaultRetries)
                 IN  /\ Launch(ConfigDefault, r)
                     /\ IF r.status = "returned"
                        THEN /\ sys' = [sys EXCEPT !.configToml = g]
                             /\ frame' = [frame EXCEPT !.generated = g]
                             /\ Goto("install_containerd", 2)
                             /\ UNCHANGED <<err, envFault>>
                        ELSE /\ err' = r.status /\ pc' = Exit
                             /\ envFault' = TRUE
                             /\ UNCHANGED <<sys, frame>>
         \/ /\ At("install_containerd", 2)
            /\ frame' = [frame EXCEPT !.config = ReSub(sys.configToml)]
            /\ pc' = Exit
            /\ UNCHANGED <<executed, err, envFault, sys>>
  /\ UNCHANGED <<inputs, config, started, completed, exitCode, joinFile,
                 initOut, join_command, rc>>

\* backup_kubernetes_config(), as reset_kubernetes calls it: copytree when
\* /etc/kubernetes is there; any exception is logged and None is returned.
\* reset_kubernetes drops the value returned (kept in frame.backup_dir).
call_backup_kubernetes_config ==
  /\ entry = "reset_kubernetes" /\ At("backup_kubernetes_config", 0)
  /\ IF sys.etcKubernetes = "present"
     THEN \E res \in CopytreeResults :
            /\ sys' = [sys EXCEPT !.backup = res]
            /\ frame' = [frame EXCEPT !.backup_dir =
                           IF res = "copied" THEN "backup_dir" ELSE "None"]
            /\ envFault' = (res # "copied")
     ELSE /\ frame' = [frame EXCEPT !.backup_dir = "backup_dir"]
          /\ UNCHANGED <<sys, envFault>>
  /\ Goto("reset_kubernetes", 1)
  /\ UNCHANGED <<inputs, config, executed, started, completed, err, exitCode,
                 joinFile, initOut, join_command, rc>>

\* reset_kubernetes(), after the backup: run_command("kubeadm reset -f"),
\* run_command("rm -rf ~/.kube"); a K8sSetupError is logged and raised again
call_reset_kubernetes ==
  \E i \in 1..Len(ResetCmds), outs \in CmdOutcomes({<<>>}) :
    /\ entry = "reset_kubernetes" /\ At("reset_kubernetes", i)
    /\ LET c == ResetCmds[i]
           r == RunCommand(variant, c, outs, DefaultRetries)
       IN  /\ Launch(c, r)
           /\ IF r.status = "returned"
              THEN /\ sys' = ResetEffect(c, sys)
                   /\ IF i = Len(ResetCmds) THEN pc' = Exit
                      ELSE Goto("reset_kubernetes", i + 1)
                   /\ UNCHANGED <<err, envFault>>
              ELSE /\ err' = r.status /\ pc' = Exit
                   /\ envFault' = TRUE
                   /\ UNCHANGED sys
    /\ UNCHANGED <<inputs, config, started, completed, exitCode, joinFile,
                   initOut, join_command, rc, frame>>

Next ==
  \/ parse_arguments
  \/ main_load_config
  \/ main_check_system_requirements
  \/ install_prerequisites
  \/ disable_swap
  \/ initialize_master
  \/ configure_kubectl
  \/ deploy_network_plugin
  \/ get_join_command
  \/ save_join_command
  \/ healthcheck
  \/ join_worker_node
  \/ parse_args
  \/ main_geteuid
  \/ main_PackageManager
  \/ main_K8sCluster
  \/ run_command_guard
  \/ run_command_attempt
  \/ call_check
  \/ call_deploy_network_plugin_debian
  \/ call_deploy_network_plugin_cross
  \/ call_configure_system
  \/ call_initialize_master
  \/ call_PackageManager
  \/ call_setup_kubernetes_repo
  \/ call_install_containerd
  \/ call_backup_kubernetes_config
  \/ call_reset_kubernetes

Spec == Init /\ [][Next]_vars


(***************************************************************************)
(* Vocabulary of the properties.                                           *)
(***************************************************************************)
Terminated == pc = Exit

\* a launched command that changes the host (everything but the reads)
Mutating(c) == c \notin ReadOnlyCmds
NoMutation == \A i \in 1..Len(executed) : ~Mutating(executed[i])

Started(stage) == \E i \in 1..Len(started) : started[i] = stage

\* the stages a stage must follow, in the order
\* prereq -> sysconfig -> runtime -> (master | worker)
Before(stage) ==
  CASE stage = "prereq"    -> {}
    [] stage = "sysconfig" -> {"prereq"}
    [] stage = "runtime"   -> {"prereq", "sysconfig"}
    [] stage \in {"master", "worker"} -> {"prereq", "sysconfig", "runtime"}
    [] OTHER -> {}

GoodHost == host.root /\ ~LowResources(host) /\ host.tools

\* the error that carries the timeout: K8sSetupError("Command repeatedly timed
\* out") in the cross-distro script, K8sSetupError("Unexpected error: " +
\* str(TimeoutExpired)) in the debian one
TimeoutError(v) == IF v = "cross" THEN "Timeout" ELSE "Unexpected"

\* the run_command call was not refused before its loop
Accepted == rc.status # "InvalidCommand"

(***************************************************************************)
(* C1.  In every run of main the stages execute in the order prerequisite  *)
(* check -> system configuration -> container-runtime installation ->      *)
(* (master init | worker join) -> done: a stage is entered only when every *)
(* stage before it has completed, a failed run enters nothing more, and a  *)
(* run that ends with status 0 has completed its role's stage.             *)
(***************************************************************************)
C1_StagesInOrder ==
  entry = "main" =>
    /\ \A i \in 1..Len(started) : Before(started[i]) \subseteq completed
    /\ (err # "none" => Terminated)
    /\ (exitCode = 0 => (role = "master" /\ "master" \in completed)
                          \/ (role = "worker" /\ "worker" \in completed))

(***************************************************************************)
(* C2.  run_command: when the first k attempts exit non-zero, k < retries, *)
(* and attempt k+1 succeeds, the call returns the (stripped) stdout of     *)
(* attempt k+1 after exactly k+1 attempts; so two failures and a success   *)
(* with retries = 3 return after 3 attempts.                               *)
(***************************************************************************)
C2_RetryUntilSuccess ==
  (entry = "run_command" /\ Terminated /\ Accepted) =>
    \A k \in 0..(rc.retries - 1) :
      ((\A i \in 1..k : rc.outs[i].kind = "nonzero") /\ rc.outs[k + 1].kind = "ok")
        => /\ rc.status = "returned"
           /\ ~rc.none
           /\ rc.value = Strip(rc.outs[k + 1].out)
           /\ rc.launched = k + 1

\* two non-zero exits, then success at the third of three attempts
C2_Witness ==
  /\ entry = "run_command" /\ Terminated
  /\ rc.retries = 3
  /\ rc.outs[1].kind = "nonzero" /\ rc.outs[2].kind = "nonzero"
  /\ rc.outs[3] = [kind |-> "ok", out |-> <<" ", "b", "\n">>]
  /\ rc.status = "returned" /\ rc.launched = 3 /\ rc.value = <<"b">>

(***************************************************************************)
(* C3.  run_command: when every attempt times out, the call fails with the *)
(* timeout error after exactly `retries` attempts.                         *)
(***************************************************************************)
C3_TimeoutAfterAllRetries ==
  ( /\ entry = "run_command" /\ Terminated /\ Accepted
    /\ rc.retries >= 1
    /\ \A i \in 1..rc.retries : rc.outs[i].kind = "timeout" )
  => rc.status = TimeoutError(variant) /\ rc.launched = rc.retries

(***************************************************************************)
(* C4.  A worker run without a join command launches no host-mutating      *)
(* command, and does not end in success.                                   *)
(***************************************************************************)
C4_MissingJoinFailsFast ==
  (entry = "main" /\ role = "worker" /\ ~join.given) =>
    /\ NoMutation
    /\ (Terminated => exitCode # 0)

(***************************************************************************)
(* C5.  On a host with less than 2 GiB of memory or fewer than 2 cores the *)
(* prerequisite check, wherever it runs, fails with an insufficient-       *)
(* resources error, and no host-mutating command is ever launched.         *)
(***************************************************************************)
C5_LowResourcesStopTheRun ==
  (entry \in {"main", "check"} /\ LowResources(host)) =>
    /\ NoMutation
    /\ completed = {}
    /\ (Started("prereq") => err \in ResourceErrors)

\* C5 as amended: the debian check looks at the euid first, so its
\* insufficient-resources error needs a root process
C5_LowResourcesStopTheRunAsRoot ==
  (entry \in {"main", "check"} /\ LowResources(host)) =>
    /\ NoMutation
    /\ completed = {}
    /\ (Started("prereq") =>
          IF variant = "debian" /\ ~host.root THEN err = "NotRoot"
          ELSE err \in ResourceErrors)

\* a root run of the debian main on a one-core host, stopped by the check
C5_Witness ==
  /\ entry = "main" /\ variant = "debian" /\ Terminated
  /\ host.root /\ host.cpu = 1 /\ host.mem = 2 * MiBPerGiB
  /\ Started("prereq") /\ err = "InsufficientResources" /\ exitCode = 1
  /\ executed = <<>>

(***************************************************************************)
(* C6.  A run whose pod-network CIDR is not a valid network launches no    *)
(* host-mutating command and does not end in success.                      *)
(***************************************************************************)
C6_InvalidCidrBeforeMutation ==
  (entry = "main" /\ cfgFile.kind = "mapping" /\ cfgFile.hasCidr
     /\ ~IpNetworkOk(cfgFile.cidr)) =>
    /\ NoMutation
    /\ (Terminated => exitCode # 0)

(***************************************************************************)
(* C7.  When the configuration file lacks pod_network_cidr or              *)
(* network_plugin, main never holds substituted defaults, enters no stage, *)
(* and does not end in success.                                            *)
(***************************************************************************)
C7_MissingKeysAreFatal ==
  (entry = "main" /\ cfgFile.kind = "mapping" /\ MissingFields(cfgFile)) =>
    /\ ~config.substituted
    /\ started = <<>>
    /\ (Terminated => exitCode # 0)

(***************************************************************************)
(* C8.  A master run with pod_network_cidr 10.244.0.0/16 and plugin        *)
(* flannel, on a sufficient host, where nothing in the environment fails,  *)
(* ends with status 0 after the master stage, has applied the flannel      *)
(* manifest and leaves a join-command file with owner-only permissions.    *)
(***************************************************************************)
C8_MasterScenario ==
  ( /\ entry = "main" /\ Terminated /\ role = "master"
    /\ cfgFile.kind = "mapping"
    /\ cfgFile.cidr = CidrFlannel /\ cfgFile.plugin = "flannel"
    /\ GoodHost /\ ~envFault )
  => /\ exitCode = 0
     /\ "master" \in completed
     /\ \E i \in 1..Len(executed) :
          executed[i] = KubectlApply(PluginUrl_debian("flannel"))
     /\ joinFile.exists /\ joinFile.mode = "0o600"

C10_JoinArtifactFromInitOutput ==
  (entry = "main" /\ Terminated /\ role = "master" /\ exitCode = 0) =>
    IF Contains(initOut, JoinFragment)
    THEN joinFile.exists /\ joinFile.content = JoinFragment
    ELSE ~joinFile.exists

(***************************************************************************)
(* C11.  The prerequisite check on a host with enough memory and CPU:      *)
(* the first port of the table, in table order, whose probe does not come  *)
(* back free decides the call: an accepting port fails it with the         *)
(* port-in-use error naming that port, a probe error fails it with the     *)
(* port-check error; the check passes only if no port is accepting.        *)
(***************************************************************************)
C11_PortsProbedInOrder ==
  (entry = "check" /\ Terminated /\ GoodHost) =>
    /\ \A i \in 1..Len(Ports) :
         (host.probe[i] # "free" /\ \A j \in 1..(i - 1) : host.probe[j] = "free")
           => /\ err = IF host.probe[i] = "busy" THEN "PortInUse" ELSE "PortCheckError"
              /\ frame.port = Ports[i]
    /\ (err = "none" => \A i \in 1..Len(Ports) : host.probe[i] = "free")

(***************************************************************************)
(* C12.  deploy_network_plugin(name): the name is looked up, lower-cased,  *)
(* in the table calico / cilium / flannel.  A name that is not there ends  *)
(* the call with the unsupported-plugin error and no command launched; for *)
(* a name that is there, unless the environment fails, the call returns    *)
(* having fetched that plugin's manifest and applied it with kubectl.      *)
(***************************************************************************)
C12_PluginLookup ==
  (entry = "deploy_network_plugin" /\ Terminated) =>
    LET name == Lower(frame.plugin)
    IN  IF name \notin {"calico", "cilium", "flannel"}
        THEN err = "UnsupportedPlugin" /\ executed = <<>>
        ELSE ~envFault =>
               /\ err = "none"
               /\ executed # <<>>
               /\ executed[Len(executed)][1] = "kubectl apply -f"
               /\ \/ executed = <<KubectlApply(PluginUrl_debian(name))>>
                  \/ /\ name \in PluginNames_cross
                     /\ executed[1] = CurlFetch(PluginUrl_cross(name))
                     /\ sys.manifest.content = ManifestText

(***************************************************************************)
(* C13.  run_command called with a command that contains ";" ends with the *)
(* invalid-command error before any attempt is made, and no command that   *)
(* contains ";" is ever launched, by a direct call or from main.           *)
(***************************************************************************)
C13_SemicolonRejected ==
  /\ (entry = "run_command" /\ HasSemicolon(rc.cmd)) =>
       /\ rc.launched = 0
       /\ (Terminated => rc.status = "InvalidCommand" /\ err = "InvalidCommand")
  /\ \A i \in 1..Len(executed) : ~HasSemicolon(executed[i])

\* main ran to its last statement: every stage it entered completed, the
\* stage of its role among them
ReachedDone ==
  /\ err = "none"
  /\ \A i \in 1..Len(started) : started[i] \in completed
  /\ role \in completed

(***************************************************************************)
(* C14.  A run of main ends with status 0 exactly when it reached Done,    *)
(* every stage it entered having completed, and with status 1 whenever an  *)
(* error ended it, before the first stage or inside one, whatever the type *)
(* of the exception.                                                       *)
(***************************************************************************)
C14_ExitCode ==
  (entry = "main" /\ Terminated) =>
    /\ (exitCode = 0 <=> ReachedDone)
    /\ (err # "none" => exitCode = 1)

\* C14 as amended: a command line that the argument parser refuses ends
\* the process with the parser's status 2
C14_ExitCodeAfterParsing ==
  (entry = "main" /\ Terminated) =>
    /\ (exitCode = 0 <=> ReachedDone)
    /\ (err \notin {"none", "ArgparseError"} => exitCode = 1)
    /\ (err = "ArgparseError" => exitCode = 2)

\* a ValueError, not a K8sSetupError, raised inside the worker stage of the
\* debian main
C14_Witness ==
  /\ entry = "main" /\ variant = "debian" /\ Terminated
  /\ Started("worker") /\ err = "InvalidCommand" /\ exitCode = 1

(***************************************************************************)
(* C15.  The system configurator called twice in a row: unless a command   *)
(* or a file write fails, the second call raises nothing, and when it has  *)
(* returned, the swap state, the mount table, the module autoload file,    *)
(* the loaded modules, the sysctl file and the live sysctl settings are    *)
(* exactly what the first call left.                                       *)
(***************************************************************************)
C15_ConfigureTwice ==
  (entry = "configure_system" /\ frame.call = 2 /\ ~envFault) =>
    /\ err = "none"
    /\ Terminated =>
         /\ sys.swapOn = frame.first.swapOn
         /\ sys.fstab = frame.first.fstab
         /\ sys.modulesFile = frame.first.modulesFile
         /\ sys.loaded = frame.first.loaded
         /\ sys.sysctlFile = frame.first.sysctlFile
         /\ sys.sysctlLive = frame.first.sysctlLive

\* the families of the distro command table
Families == {"ubuntu", "debian", "fedora", "centos", "rhel", "suse", "arch"}

(***************************************************************************)
(* C16.  A distro identifier that is, lower-cased, one of the seven        *)
(* families resolves to a table entry with the four verbs update, install, *)
(* remove and clean all non-empty.  For any other identifier the           *)
(* resolution, the repository setup and the runtime installation each end  *)
(* with the unsupported-distribution error, and launch no command.         *)
(***************************************************************************)
C16_DistroProfile ==
  (entry \in {"PackageManager", "setup_kubernetes_repo", "install_containerd"}
     /\ Terminated) =>
    IF Lower(frame.distro) \in Families
    THEN /\ frame.distro_id \in DOMAIN CommandTable
         /\ \A verb \in {"update", "install", "remove", "clean"} :
              CommandTable[frame.distro_id][verb] # ""
         /\ err # "UnsupportedDistro"
    ELSE err = "UnsupportedDistro" /\ executed = <<>>

\* load_config has something to return: no file (the defaults), or a file
\* with both required keys
ConfigLoads ==
  \/ cfgFile.kind = "missing"
  \/ cfgFile.kind = "mapping" /\ ~MissingFields(cfgFile)

(***************************************************************************)
(* C17.  A worker run that was given a non-empty join command, on a        *)
(* sufficient host with a loadable configuration and nothing failing in    *)
(* the environment, ends with status 0 with the worker stage complete, the *)
(* last command launched being the join command exactly as it was given,   *)
(* whatever its content.                                                   *)
(***************************************************************************)
C17_WorkerJoinsVerbatim ==
  ( /\ entry = "main" /\ Terminated /\ role = "worker"
    /\ join.given /\ join.cmd # <<>>
    /\ ConfigLoads /\ GoodHost /\ ~envFault )
  => /\ exitCode = 0
     /\ "worker" \in completed
     /\ executed # <<>>
     /\ executed[Len(executed)] = join.cmd

\* the init command, and the commands that deploy the network plugin
IsInit(c) == c[1] \in {KubeadmInitConfig[1], "kubeadm init --pod-network-cidr="}
IsDeploy(c) == c[1] \in {"kubectl apply -f", "curl -fsSL"}

(***************************************************************************)
(* C18.  The control-plane steps of a master run come in order: the init   *)
(* command is launched only for a valid pod-network CIDR; the admin        *)
(* credential file is there only after init returned; when the deployment  *)
(* of the network plugin starts, the credential file is there with         *)
(* owner-only permissions; and the join command is asked for only after    *)
(* the plugin's manifest was applied.                                      *)
(***************************************************************************)
C18_ControlPlaneOrder ==
  (entry \in {"main", "initialize_master"} /\ role = "master") =>
    /\ \A i \in 1..Len(executed) : IsInit(executed[i]) => IpNetworkOk(config.cidr)
    /\ sys.kubeconfig # "none" =>
         initOut # <<>> /\ \E i \in 1..Len(executed) : IsInit(executed[i])
    /\ \A i \in 1..Len(executed) : IsDeploy(executed[i]) => sys.kubeconfig = "0o600"
    /\ \A i \in 1..Len(executed) :
         executed[i] = TokenCreate =>
           \E j \in 1..(i - 1) : executed[j][1] = "kubectl apply -f"

\* a command that acts on a service of the init system
ServiceCommand(c) == c[1] = "systemctl"

(***************************************************************************)
(* C19.  Whenever install_containerd returns without an error, it has      *)
(* restarted and enabled the runtime service, and that was the last thing  *)
(* it did: the last command it launched is a service command.              *)
(***************************************************************************)
C19_RuntimeRestarted ==
  (entry = "install_containerd" /\ Terminated /\ err = "none") =>
    /\ executed # <<>>
    /\ ServiceCommand(executed[Len(executed)])

\* the text with every cgroup-driver flag line set to true, its indentation
\* and every other line kept
FlagEnabled(file) ==
  [i \in 1..Len(file) |->
     IF IsFlagFalse(file[i])
     THEN SubSeq(file[i], 1, Len(file[i]) - Len(LStrip(file[i])))
            \o <<FlagTrue>> \o Tail(LStrip(file[i]))
     ELSE file[i]]

(***************************************************************************)
(* C20.  Whenever install_containerd returns without an error, the runtime *)
(* configuration file on disk is the generated default configuration with  *)
(* the cgroup-driver flag changed from false to true and every other line  *)
(* as it was generated.                                                    *)
(***************************************************************************)
C20_CgroupFlagOnDisk ==
  (entry = "install_containerd" /\ Terminated /\ err = "none") =>
    sys.configToml = FlagEnabled(frame.generated)

(***************************************************************************)
(* C21.  setup_kubernetes_repo on a PackageManager of the suse or arch     *)
(* family launches no command and raises nothing.  For ubuntu, debian,     *)
(* fedora, centos and rhel the commands launched are, in order, the        *)
(* family's repository steps and then the update verb: a call that         *)
(* returned launched all of them, the update verb last, and a call that    *)
(* raised launched nothing after the command that failed.                  *)
(***************************************************************************)
C21_RepoSetup ==
  (entry = "setup_kubernetes_repo" /\ pc.fn # "PackageManager") =>
    LET d == frame.distro_id
        n == Len(executed)
    IN  /\ d \in {"suse", "arch"} => executed = <<>> /\ err = "none"
        /\ d \in {"ubuntu", "debian", "fedora", "centos", "rhel"} =>
             /\ n <= Len(RepoSteps(d)) + 1
             /\ \A i \in 1..n :
                  executed[i] = IF i <= Len(RepoSteps(d)) THEN RepoSteps(d)[i]
                                ELSE <<CommandTable[d].update>>
             /\ (Terminated /\ err = "none") => n = Len(RepoSteps(d)) + 1
             /\ err # "none" => Terminated

\* the call on a suse host has returned, and a call on a fedora host has
\* launched its repository file and the index refresh
C21_Witness ==
  /\ entry = "setup_kubernetes_repo" /\ Terminated /\ err = "none"
  /\ \/ frame.distro_id = "suse" /\ executed = <<>>
     \/ frame.distro_id = "fedora" /\ Len(executed) = 2

(***************************************************************************)
(* C22.  A run_command call with retries >= 1 launches at most `retries`   *)
(* attempts, whatever each attempt does (exit 0, non-zero exit, timeout,   *)
(* system error at launch).  No attempt is launched after one that exited  *)
(* with status 0, the call is over once `retries` attempts were launched,  *)
(* and a finished call either returned the stripped output of the first    *)
(* successful attempt or raised an error.                                  *)
(***************************************************************************)
C22_BoundedAttempts ==
  (entry = "run_command" /\ rc.retries >= 1) =>
    /\ rc.launched <= rc.retries
    /\ Len(executed) = rc.launched
    /\ \A i \in 1..rc.launched :
         rc.outs[i].kind = "ok" => i = rc.launched /\ Terminated
    /\ rc.launched = rc.retries => Terminated
    /\ Terminated =>
         \/ /\ rc.status = "returned" /\ ~rc.none
            /\ rc.launched >= 1
            /\ rc.outs[rc.launched].kind = "ok"
            /\ rc.value = Strip(rc.outs[rc.launched].out)
         \/ /\ rc.status \in {"InvalidCommand", "CommandFailed", "Timeout",
                               "OsError", "Unexpected"}
            /\ err = rc.status

\* a call that used up all of its three attempts and raised, the third
\* attempt having timed out
C22_Witness ==
  /\ entry = "run_command" /\ Terminated
  /\ rc.retries = 3 /\ rc.launched = 3
  /\ rc.outs[3].kind = "timeout"
  /\ rc.status # "returned"

(***************************************************************************)
(* C23.  A run_command call returns to its caller only if one of its       *)
(* attempts exited with status 0, for every value of retries, 0 included:  *)
(* a call none of whose attempts succeeded ends with an error, never with  *)
(* a value (None included).                                                *)
(***************************************************************************)
C23_ReturnMeansSuccess ==
  (entry = "run_command" /\ Terminated /\ rc.status = "returned") =>
    /\ ~rc.none
    /\ \E i \in 1..rc.launched : rc.outs[i].kind = "ok"

(***************************************************************************)
(* C24.  In every state of a master run in which the join-command file     *)
(* exists and holds the join command, the mode of the file is 0600: the    *)
(* content is never on disk under any other mode, not even between the     *)
(* write and the chmod.                                                    *)
(***************************************************************************)
C24_JoinFileOwnerOnly ==
  (/\ entry = "main" /\ role = "master"
   /\ joinFile.exists
   /\ joinFile.content # <<>> /\ joinFile.content = join_command) =>
    joinFile.mode = "0o600"

(***************************************************************************)
(* C25.  reset_kubernetes launches 'kubeadm reset -f' and the removal of   *)
(* ~/.kube only after backup_kubernetes_config has copied an existing      *)
(* /etc/kubernetes: once the backup has failed, no reset command is        *)
(* launched and /etc/kubernetes is still there.                            *)
(***************************************************************************)
C25_BackupBeforeReset ==
  (entry = "reset_kubernetes" /\ frame.backup_dir = "None") =>
    /\ executed = <<>>
    /\ sys.etcKubernetes = "present"

(***************************************************************************)
(* C26.  The join-command file is written only by a master run, and only   *)
(* after the init command and then the plugin manifest were applied with   *)
(* success: the run that wrote it launched kubeadm init, then kubectl      *)
(* apply, then the token command, and no error was raised up to the write. *)
(* A worker run, and a master run whose init or plugin deployment failed,  *)
(* never has the file.                                                     *)
(***************************************************************************)
C26_JoinFileOnlyAfterControlPlane ==
  (entry = "main" /\ joinFile.exists) =>
    /\ role = "master"
    /\ initOut # <<>>
    /\ \E i, j, k \in 1..Len(executed) :
         /\ i < j /\ j < k
         /\ IsInit(executed[i])
         /\ executed[j][1] = "kubectl apply -f"
         /\ executed[k] = TokenCreate
    /\ ~Terminated => err = "none"
    /\ err \in {"none", "SaveFailed", "HealthCheckFailed"}

\* a master run that has ended well and left the file
C26_Witness ==
  /\ entry = "main" /\ role = "master" /\ Terminated /\ err = "none"
  /\ joinFile.exists /\ joinFile.content = join_command
  /\ joinFile.mode = "0o600"

====
